---- MODULE Spec2Model ----
(***************************************************************************)
(* A model of dashboard.py: the one-shot batch pipeline that caches the    *)
(* monthly trip files and the zone lookup file, runs three aggregation     *)
(* queries over them and writes one HTML document.                         *)
(*                                                                         *)
(* Two specifications share the module.                                    *)
(*   Spec      - main() as a sequence of I/O steps (argument validation,   *)
(*               cache resolution, view creation, queries, output), with   *)
(*               the environment choosing which I/O step fails.  File      *)
(*               contents are abstract: "absent", "complete", "partial"    *)
(*               (cut short), "document" (the HTML output) and             *)
(*               "partial_document".                                       *)
(*   QuerySpec - the three SQL queries and build_dashboard as functions of *)
(*               a concrete trip table and lookup table drawn in QInit.    *)
(***************************************************************************)
EXTENDS Integers, Sequences, FiniteSets, TLC

(***************************************************************************)
(* Bounds of the model.                                                    *)
(***************************************************************************)
MaxMonths == 2
MaxRuns == 2

VARIABLES
    \* ---- Spec: the pipeline of main() ----
    pc,           \* position of main(): "idle" before a run, then the step about to run
    run,          \* number of runs started so far
    argMonths,    \* args.months as given on the command line of the current run
    months,       \* main()'s local `months` (after the default is applied)
    outPath,      \* args.output
    idx,          \* position of the for loop of ensure_local_files (1-based)
    local_paths,  \* ensure_local_files()'s list of resolved paths
    cacheDir,     \* TRUE iff the directory data/raw exists
    cache,        \* content of every file of data/raw the model names
    output,       \* content of the file outputs/dashboard.html
    error,        \* the exception that ended the current run, "none" otherwise
    printed,      \* TRUE iff the confirmation line was printed in the current run
    io,           \* kinds of I/O performed so far in the current run
    fetchLog,     \* paths handed to urlopen in the current run, in order
    written,      \* cache paths opened for writing by a download of the current run
    queriesOk,    \* queries that returned a table in the current run
    queryRead,    \* cache paths read by the queries that returned in the current run
    torn,         \* cache paths left partially written by a failed download
    cutShort,     \* cache paths a download of the current run left cut short without failing
    startCache,   \* cache at the start of the current run
    startDir,     \* cacheDir at the start of the current run
    startOutput,  \* output at the start of the current run
    \* ---- QuerySpec: the queries over concrete data ----
    trips,        \* the union of the cached parquet files: trip kind -> number of rows
    zones,        \* taxi_zone_lookup.csv: LocationID -> [Zone, Borough]
    qpc,          \* position in main() lines 306-310
    again,        \* TRUE iff the pipeline was run before over the unchanged cache
    hourly,       \* last result of compute_hourly_circadian
    monthly,      \* last result of compute_monthly_trend
    night,        \* last result of compute_night_destinations
    figure        \* last result of build_dashboard

pvars == <<pc, run, argMonths, months, outPath, idx, local_paths, cacheDir, cache, output,
           error, printed, io, fetchLog, written, queriesOk, queryRead, torn, cutShort,
           startCache, startDir, startOutput>>
qvars == <<trips, zones, qpc, again, hourly, monthly, night, figure>>
vars == <<pvars, qvars>>

Range(s) == {s[k] : k \in 1..Len(s)}

(***************************************************************************)
(* Month strings are sequences of characters, so that the regular          *)
(* expression of main() is computed, not assumed.  A character outside     *)
(* ASCII is written as its code point: "U+0662" is ARABIC-INDIC DIGIT TWO. *)
(***************************************************************************)
M_2025_01 == <<"2", "0", "2", "5", "-", "0", "1">>
M_2025_02 == <<"2", "0", "2", "5", "-", "0", "2">>
M_2025_03 == <<"2", "0", "2", "5", "-", "0", "3">>
M_arabic == <<"U+0662", "U+0660", "U+0662", "U+0665", "-", "U+0660", "U+0661">>
M_short == <<"2", "0", "2", "5", "-", "1">>

DEFAULT_MONTHS == <<M_2025_01, M_2025_02, M_2025_03>>

\* The strings a command line of the model may carry after --months.
MonthStrings == {M_2025_01, M_arabic, M_short}

SeqsUpTo(S, n) == UNION {[1..k -> S] : k \in 0..n}

ArgLists == SeqsUpTo(MonthStrings, MaxMonths)

\* \d of a str pattern: every Unicode decimal digit (category Nd), of which
\* the model has the ASCII digits and the Arabic-Indic digits it uses.
Digits ==
    {"0", "1", "2", "3", "4", "5", "6", "7", "8", "9"}
    \cup {"U+0660", "U+0661", "U+0662", "U+0665"}

\* re.fullmatch(r"\d{4}-\d{2}", value)
FullMatch(value) ==
    /\ Len(value) = 7
    /\ \A k \in {1, 2, 3, 4, 6, 7} : value[k] \in Digits
    /\ value[5] = "-"

\* CACHE_DIR / f"yellow_tripdata_{month}.parquet"
Destination(month) == <<"data/raw/yellow_tripdata_", month, ".parquet">>

ZONE_LOOKUP_FILE == <<"data/raw/taxi_zone_lookup.csv">>

\* The default of --output.
DEFAULT_OUTPUT == <<"outputs/dashboard.html">>

MonthPaths == {Destination(m) : m \in MonthStrings \cup Range(DEFAULT_MONTHS)}
Paths == MonthPaths \cup {ZONE_LOOKUP_FILE}

\* The paths a command line of the model may carry after --output: the
\* default, and two paths inside the cache directory.
OutputPaths == {DEFAULT_OUTPUT, Destination(M_2025_01), ZONE_LOOKUP_FILE}

\* destination.exists()
ExistsNever(c, path) == FALSE

Exists(c, path) == c[path] # "absent"

(***************************************************************************)
(* What one download (print, urlopen, destination.open("wb"),              *)
(* copyfileobj) can do.  print runs first and raises when stdout cannot    *)
(* encode the arrow of the message.  urlopen runs next: when it raises,    *)
(* the destination is not opened.  Once the destination is open it exists, *)
(* and an error inside copyfileobj leaves the bytes copied so far.  When   *)
(* the server closes the connection early, the response's read returns     *)
(* short data without raising: copyfileobj returns, the file is cut short  *)
(* and the run goes on ("short").                                          *)
(***************************************************************************)
FetchOutcomes ==
    {"ok", "short", "print_error", "urlopen_error", "open_error", "copy_error"}

\* What one `if not destination.exists():` statement can do: what the
\* download can do, and exists() itself raising (the file cannot be
\* reached: no permission on the cache directory), whether the file is
\* there or not.
ResolveOutcomes == FetchOutcomes \cup {"stat_error"}

Init ==
    /\ pc = "idle"
    /\ run = 0
    /\ argMonths = <<>>
    /\ months = <<>>
    /\ outPath = DEFAULT_OUTPUT
    /\ idx = 1
    /\ local_paths = <<>>
    /\ cacheDir = FALSE
    /\ cache = [p \in Paths |-> "absent"]
    /\ output = "absent"
    /\ error = "none"
    /\ printed = FALSE
    /\ io = {}
    /\ fetchLog = <<>>
    /\ written = {}
    /\ queriesOk = {}
    /\ queryRead = {}
    /\ torn = {}
    /\ cutShort = {}
    /\ startCache = cache
    /\ startDir = cacheDir
    /\ startOutput = output
    /\ trips = <<>>
    /\ zones = <<>>
    /\ qpc = "off"
    /\ again = FALSE
    /\ hourly = <<>>
    /\ monthly = <<>>
    /\ night = <<>>
    /\ figure = <<>>

\* An uncaught exception leaves main(): nothing after the failing statement runs.
Abort(err) ==
    /\ pc' = "aborted"
    /\ error' = err

\* A new process starts: one more run of main().
StartRun ==
    /\ pc = "idle"
    /\ run < MaxRuns
    /\ run' = run + 1
    /\ UNCHANGED <<idx, local_paths, cacheDir, cache, output, printed, io, fetchLog,
                   written, queriesOk, queryRead, torn, cutShort,
                   startCache, startDir, startOutput>>

\* The process ends, main() having returned or raised: its locals are gone,
\* the files stay as they are.
Exit ==
    /\ pc \in {"done", "aborted"}
    /\ pc' = "idle"
    /\ argMonths' = <<>>
    /\ months' = <<>>
    /\ outPath' = DEFAULT_OUTPUT
    /\ idx' = 1
    /\ local_paths' = <<>>
    /\ error' = "none"
    /\ printed' = FALSE
    /\ io' = {}
    /\ fetchLog' = <<>>
    /\ written' = {}
    /\ queriesOk' = {}
    /\ queryRead' = {}
    /\ cutShort' = {}
    /\ startCache' = cache
    /\ startDir' = cacheDir
    /\ startOutput' = output
    /\ UNCHANGED <<run, cacheDir, cache, output, torn>>

\* parse_args lines 36-52 on a command line argparse rejects (an unknown
\* option, --output without a value): it exits with status 2.
UsageError ==
    /\ StartRun
    /\ argMonths' = <<>>
    /\ months' = <<>>
    /\ outPath' = DEFAULT_OUTPUT
    /\ pc' = "aborted"
    /\ error' = "SystemExit"

\* main() lines 297-303: parse_args, the default, and the validation loop.
ParseAndValidate(args, out) ==
    /\ StartRun
    /\ argMonths' = args
    /\ months' = IF args = <<>> THEN DEFAULT_MONTHS ELSE args
    /\ outPath' = out
    /\ IF \E k \in 1..Len(months') : ~FullMatch(months'[k])
         THEN /\ pc' = "aborted"
              /\ error' = "ValueError"
         ELSE /\ pc' = "mkdir"
              /\ error' = "none"

\* ensure_local_files line 57: CACHE_DIR.mkdir(parents=True, exist_ok=True).
\* It raises when the directory cannot be made, and also when it exists but
\* cannot be reached (no permission on a parent directory).
MkCacheDir ==
    /\ pc = "mkdir"
    /\ io' = io \cup {"mkdir"}
    /\ \/ /\ cacheDir' = TRUE
          /\ pc' = "months"
          /\ UNCHANGED error
       \/ /\ Abort("MkdirError")
          /\ UNCHANGED cacheDir
    /\ UNCHANGED <<run, argMonths, months, outPath, idx, local_paths, cache, output,
                   printed, fetchLog, written, queriesOk, queryRead, torn, cutShort,
                   startCache, startDir, startOutput>>

\* Lines 62-65 and 84-87: fetch `path`, which does not exist.  `after` is
\* the position reached when the with statement ends without an exception.
Download(path, outcome, after) ==
    LET opened == outcome \in {"ok", "short", "copy_error"} IN
    /\ fetchLog' = IF outcome = "print_error" THEN fetchLog ELSE Append(fetchLog, path)
    /\ io' = io \cup (IF outcome = "print_error" THEN {} ELSE {"network"})
                \cup (IF opened THEN {"write"} ELSE {})
    /\ written' = IF opened THEN written \cup {path} ELSE written
    /\ cache' = [cache EXCEPT ![path] =
                    CASE outcome = "ok" -> "complete"
                      [] outcome \in {"short", "copy_error"} -> "partial"
                      [] OTHER -> @]
    /\ torn' = IF outcome = "copy_error" THEN torn \cup {path} ELSE torn
    /\ cutShort' = IF outcome = "short" THEN cutShort \cup {path} ELSE cutShort
    /\ IF outcome \in {"ok", "short"}
         THEN /\ pc' = after
              /\ UNCHANGED error
         ELSE Abort(IF outcome = "print_error" THEN "PrintError" ELSE "DownloadError")

\* ensure_local_files lines 59-67: one iteration of the loop, or the return.
EnsureMonth(outcome) ==
    /\ pc = "months"
    /\ IF idx > Len(months)
         THEN /\ outcome = "ok"
              /\ pc' = "view_trips"
              /\ UNCHANGED <<idx, local_paths, cache, error, io, fetchLog, written, torn,
                           cutShort>>
         ELSE LET destination == Destination(months[idx]) IN
              IF outcome = "stat_error"
                THEN /\ Abort("StatError")
                     /\ UNCHANGED <<idx, local_paths, cache, io, fetchLog, written, torn,
                                  cutShort>>
              ELSE IF Exists(cache, destination)
                THEN /\ outcome = "ok"
                     /\ local_paths' = Append(local_paths, destination)
                     /\ idx' = idx + 1
                     /\ UNCHANGED <<pc, cache, error, io, fetchLog, written, torn,
                                  cutShort>>
                ELSE /\ Download(destination, outcome, pc)
                     /\ IF outcome \in {"ok", "short"}
                          THEN /\ local_paths' = Append(local_paths, destination)
                               /\ idx' = idx + 1
                          ELSE UNCHANGED <<idx, local_paths>>
    /\ UNCHANGED <<run, argMonths, months, outPath, cacheDir, output, printed,
                   queriesOk, queryRead, startCache, startDir, startOutput>>

\* load_data lines 76-82: CREATE VIEW taxi_trips over read_parquet.  The
\* code hands the files to the engine without looking at them; whether the
\* statement raises is the engine's answer.
CreateTripsView(outcome) ==
    /\ pc = "view_trips"
    /\ outcome \in {"ok", "error"}
    /\ io' = io \cup {"query"}
    /\ IF outcome = "ok"
         THEN /\ pc' = "lookup"
              /\ UNCHANGED error
         ELSE Abort("QueryError")
    /\ UNCHANGED <<run, argMonths, months, outPath, idx, local_paths, cacheDir, cache,
                   output, printed, fetchLog, written, queriesOk, queryRead, torn, cutShort,
                   startCache, startDir, startOutput>>

\* load_data lines 84-87
EnsureLookup(outcome) ==
    /\ pc = "lookup"
    /\ IF outcome = "stat_error"
         THEN /\ Abort("StatError")
              /\ UNCHANGED <<cache, io, fetchLog, written, torn, cutShort>>
       ELSE IF Exists(cache, ZONE_LOOKUP_FILE)
         THEN /\ outcome = "ok"
              /\ pc' = "view_zones"
              /\ UNCHANGED <<cache, error, io, fetchLog, written, torn, cutShort>>
         ELSE Download(ZONE_LOOKUP_FILE, outcome, "view_zones")
    /\ UNCHANGED <<run, argMonths, months, outPath, idx, local_paths, cacheDir, output,
                   printed, queriesOk, queryRead, startCache, startDir, startOutput>>

\* load_data lines 89-96: CREATE VIEW taxi_zones over read_csv_auto.
CreateZonesView(outcome) ==
    /\ pc = "view_zones"
    /\ outcome \in {"ok", "error"}
    /\ io' = io \cup {"query"}
    /\ IF outcome = "ok"
         THEN /\ pc' = "hourly"
              /\ UNCHANGED error
         ELSE Abort("QueryError")
    /\ UNCHANGED <<run, argMonths, months, outPath, idx, local_paths, cacheDir, cache,
                   output, printed, fetchLog, written, queriesOk, queryRead, torn, cutShort,
                   startCache, startDir, startOutput>>

Queries == {"hourly", "monthly", "night"}

NextStep(q) ==
    CASE q = "hourly" -> "monthly"
      [] q = "monthly" -> "night"
      [] q = "night" -> "write"

\* The files a query scans: taxi_trips reads the month files, and the
\* night query joins taxi_zones, which reads the lookup file.
QueryInputs(q) ==
    Range(local_paths) \cup (IF q = "night" THEN {ZONE_LOOKUP_FILE} ELSE {})

\* main() lines 306-308: con.execute(query).df(), one query per step.
RunQuery(outcome) ==
    /\ pc \in Queries
    /\ outcome \in {"ok", "error"}
    /\ io' = io \cup {"query"}
    /\ IF outcome = "ok"
         THEN /\ queriesOk' = queriesOk \cup {pc}
              /\ queryRead' = queryRead \cup QueryInputs(pc)
              /\ pc' = NextStep(pc)
              /\ UNCHANGED error
         ELSE /\ Abort("QueryError")
              /\ UNCHANGED <<queriesOk, queryRead>>
    /\ UNCHANGED <<run, argMonths, months, outPath, idx, local_paths, cacheDir, cache,
                   output, printed, fetchLog, written, torn, cutShort,
                   startCache, startDir, startOutput>>

\* output_path.write_text(document): the file at args.output, which is the
\* default output file or a file of the cache directory, gets `content`.
WriteText(content) ==
    IF outPath = DEFAULT_OUTPUT
      THEN /\ output' = content
           /\ UNCHANGED <<cache, torn>>
      ELSE /\ cache' = [cache EXCEPT ![outPath] = content]
           /\ torn' = torn \ {outPath}
           /\ UNCHANGED output

\* The ways main() lines 310-312 can end.
WriteOutcomes == {"ok", "mkdir_error", "open_error", "write_error", "confirm_error"}

\* main() lines 310-312: build_dashboard, write_dashboard, print.
\* write_dashboard makes the parent directory of args.output, then
\* write_text opens the file for writing, which truncates it, and writes.
\* When the mkdir raises, or the file cannot be opened (no permission), the
\* file is as it was.  The print of line 312 runs after the document is
\* written and raises when stdout cannot encode the resolved path.
WriteDashboard(outcome) ==
    /\ pc = "write"
    /\ outcome \in WriteOutcomes
    /\ CASE outcome = "ok" ->
              /\ WriteText("document")
              /\ io' = io \cup {"output"}
              /\ printed' = TRUE
              /\ pc' = "done"
              /\ UNCHANGED error
         [] outcome \in {"mkdir_error", "open_error"} ->
              /\ Abort("OutputError")
              /\ UNCHANGED <<output, cache, torn, io, printed>>
         [] outcome = "write_error" ->
              /\ WriteText("partial_document")
              /\ io' = io \cup {"output"}
              /\ Abort("OutputError")
              /\ UNCHANGED printed
         [] outcome = "confirm_error" ->
              /\ WriteText("document")
              /\ io' = io \cup {"output"}
              /\ Abort("ConfirmError")
              /\ UNCHANGED printed
    /\ UNCHANGED <<run, argMonths, months, outPath, idx, local_paths, cacheDir,
                   fetchLog, written, queriesOk, queryRead, cutShort,
                   startCache, startDir, startOutput>>

Next ==
    \/ /\ \E args \in ArgLists, out \in OutputPaths : ParseAndValidate(args, out)
       /\ UNCHANGED qvars
    \/ /\ UsageError
       /\ UNCHANGED qvars
    \/ /\ MkCacheDir
       /\ UNCHANGED qvars
    \/ /\ \E o \in ResolveOutcomes : EnsureMonth(o)
       /\ UNCHANGED qvars
    \/ /\ \E o \in {"ok", "error"} : CreateTripsView(o)
       /\ UNCHANGED qvars
    \/ /\ \E o \in ResolveOutcomes : EnsureLookup(o)
       /\ UNCHANGED qvars
    \/ /\ \E o \in {"ok", "error"} : CreateZonesView(o)
       /\ UNCHANGED qvars
    \/ /\ \E o \in {"ok", "error"} : RunQuery(o)
       /\ UNCHANGED qvars
    \/ /\ \E o \in WriteOutcomes : WriteDashboard(o)
       /\ UNCHANGED qvars
    \/ /\ Exit
       /\ UNCHANGED qvars

Spec == Init /\ [][Next]_vars

(***************************************************************************)
(* Properties of the pipeline (checked under Spec).                        *)
(***************************************************************************)
Requested == {Destination(months[k]) : k \in 1..Len(months)}

Present(c) == {p \in Paths : c[p] # "absent"}

ResolutionDone == pc \in {"view_zones", "hourly", "monthly", "night", "write", "done"}

\* The cache file args.output names, once the run has opened it for writing.
OutputWritten == IF "output" \in io THEN {outPath} \cap Paths ELSE {}

\* C1 (as stated): a file present at its path when the run starts is never
\* fetched, never opened for writing, and has the same content for the whole
\* run; no path is fetched twice in a run; and when the cache resolution
\* has succeeded, the cache holds what it held before plus one file per
\* distinct requested month plus the lookup file (and the output file, when
\* --output names a path of the cache directory), the fetched paths being
\* exactly the requested paths that were absent.
C1_CacheResolutionAsStated ==
    /\ \A p \in Paths :
          startCache[p] # "absent" =>
              /\ p \notin written
              /\ p \notin Range(fetchLog)
              /\ cache[p] = startCache[p]
    /\ \A i, j \in 1..Len(fetchLog) : i # j => fetchLog[i] # fetchLog[j]
    /\ ResolutionDone =>
          /\ cacheDir
          /\ local_paths = [k \in 1..Len(months) |-> Destination(months[k])]
          /\ Cardinality(Range(local_paths)) = Cardinality(Range(months))
          /\ Present(cache) = Present(startCache) \cup Requested \cup {ZONE_LOOKUP_FILE}
                                  \cup OutputWritten
          /\ Range(fetchLog) = (Requested \cup {ZONE_LOOKUP_FILE}) \ Present(startCache)
          /\ written = Range(fetchLog)

\* C1 (amended): as above, except that a file present at the start which
\* --output names is replaced by the document once the run writes its
\* output; every other file present at the start keeps its content.
C1_CacheResolution ==
    /\ \A p \in Paths :
          startCache[p] # "absent" =>
              /\ p \notin written
              /\ p \notin Range(fetchLog)
              /\ cache[p] = startCache[p] \/ p \in OutputWritten
    /\ \A p \in OutputWritten : cache[p] \in {"document", "partial_document"}
    /\ \A i, j \in 1..Len(fetchLog) : i # j => fetchLog[i] # fetchLog[j]
    /\ ResolutionDone =>
          /\ cacheDir
          /\ local_paths = [k \in 1..Len(months) |-> Destination(months[k])]
          /\ Cardinality(Range(local_paths)) = Cardinality(Range(months))
          /\ Present(cache) = Present(startCache) \cup Requested \cup {ZONE_LOOKUP_FILE}
                                  \cup OutputWritten
          /\ Range(fetchLog) = (Requested \cup {ZONE_LOOKUP_FILE}) \ Present(startCache)
          /\ written = Range(fetchLog)

\* A resolution of the default months that found the first month cached and
\* fetched the two others and the lookup file.
C1_Witness ==
    /\ pc = "view_zones"
    /\ months = DEFAULT_MONTHS
    /\ startCache[Destination(M_2025_01)] = "complete"
    /\ fetchLog = <<Destination(M_2025_02), Destination(M_2025_03), ZONE_LOOKUP_FILE>>
    /\ \A p \in Requested \cup {ZONE_LOOKUP_FILE} : cache[p] = "complete"

\* YYYY-MM: four digits 0-9, a hyphen, two digits 0-9.
IsYearMonth(value) ==
    /\ Len(value) = 7
    /\ \A k \in {1, 2, 3, 4, 6, 7} :
          value[k] \in {"0", "1", "2", "3", "4", "5", "6", "7", "8", "9"}
    /\ value[5] = "-"

\* C2: a run whose month list holds, at any position, a string that is not
\* of the form YYYY-MM has aborted with the validation error and has done
\* no I/O: no mkdir, no fetch, no file written, no query, cache and output
\* as before.
C2_MalformedMonthAbortsBeforeIO ==
    (pc # "idle" /\ \E k \in 1..Len(months) : ~IsYearMonth(months[k])) =>
        /\ pc = "aborted"
        /\ error = "ValueError"
        /\ io = {}
        /\ fetchLog = <<>>
        /\ written = {}
        /\ queriesOk = {}
        /\ queryRead = {}
        /\ cacheDir = startDir
        /\ cache = startCache
        /\ output = startOutput

\* The file at args.output now and when the run started.
OutputFile == IF outPath = DEFAULT_OUTPUT THEN output ELSE cache[outPath]
StartOutputFile == IF outPath = DEFAULT_OUTPUT THEN startOutput ELSE startCache[outPath]

FatalBeforeOutput ==
    {"SystemExit", "ValueError", "MkdirError", "StatError", "PrintError", "DownloadError",
     "QueryError"}

\* C3: the output is written and the confirmation printed only in a run in
\* which every download delivered its file in full and all three queries
\* returned; a run ended by a download or query error (or by a usage,
\* validation, mkdir or exists() error) stays aborted, prints nothing and leaves an
\* existing file at the output path as it was; a failed download is not
\* tried again.
C3_CompleteOrAbort ==
    /\ ("output" \in io \/ printed \/ pc = "done") =>
          /\ queriesOk = Queries
          /\ error \notin FatalBeforeOutput
          /\ cutShort = {}
          /\ \A p \in Requested \cup {ZONE_LOOKUP_FILE} : cache[p] # "absent"
    /\ printed => (pc = "done" /\ OutputFile = "document")
    /\ error \in FatalBeforeOutput =>
          /\ pc = "aborted"
          /\ ~printed
          /\ "output" \notin io
          /\ output = startOutput
          /\ StartOutputFile # "absent" => OutputFile = StartOutputFile
    /\ (error = "DownloadError" /\ fetchLog # <<>>) =>
          cache[fetchLog[Len(fetchLog)]] \in {"absent", "partial"}

\* C4: no query reads a file that a failed download left partially written.
C4_NoPartialFileUsed == queryRead \cap torn = {}

(***************************************************************************)
(* QuerySpec: the queries over concrete tables.                            *)
(*                                                                         *)
(* A timestamp is a number of hours since an epoch; NULL is SQL NULL of a  *)
(* numeric or timestamp column.  A table of trips is a bag: a function     *)
(* from trip records to the number of rows with these values.              *)
(***************************************************************************)
NumZones == 10
FreeZones == 3

NULL == 0 - 1

\* The timestamp of an hour of a day.
TS(day, hour) == day * 24 + hour

Trip(pickup, dropoff, zone, passengers) ==
    [tpep_pickup_datetime |-> pickup, tpep_dropoff_datetime |-> dropoff,
     DOLocationID |-> zone, passenger_count |-> passengers]

\* The night crowd: NumZones drop-off zones at 22:00 of day 0.  Zones above
\* FreeZones have fixed, different numbers of trips; each zone up to
\* FreeZones has one trip or none, so that several zones tie at one trip.
CrowdKind(z) == Trip(TS(0, 22), TS(0, 23), z, 1)
CrowdMult(z, crowd, free) ==
    IF z > FreeZones THEN (IF crowd THEN z - FreeZones ELSE 0)
    ELSE IF z \in free THEN 1 ELSE 0

\* Single trips around the edges of the queries: the two ends of the night
\* window and the hours just outside it, a second day, a zone no lookup
\* table knows, a NULL passenger count and NULL timestamps.
ExtraKinds ==
    { Trip(TS(1, 22), TS(1, 23), 1, 2),
      Trip(TS(0, 4), TS(0, 5), 2, 1),
      Trip(TS(0, 5), TS(0, 6), 2, 2),
      Trip(TS(1, 19), TS(1, 20), 3, 1),
      Trip(TS(1, 20), TS(1, 21), NumZones, NULL),
      Trip(NULL, TS(0, 23), 1, 1),
      Trip(TS(0, 22), NULL, 1, 1) }

TripKinds == {CrowdKind(z) : z \in 1..NumZones} \cup ExtraKinds

Table(crowd, free, extras) ==
    [k \in TripKinds |->
        IF k \in ExtraKinds
          THEN (IF k \in extras THEN 1 ELSE 0)
          ELSE CrowdMult(k.DOLocationID, crowd, free)]

TripTables ==
    {Table(crowd, free, extras) :
        crowd \in BOOLEAN, free \in SUBSET (1..FreeZones), extras \in SUBSET ExtraKinds}

\* taxi_zone_lookup.csv: one row per LocationID.  LocationIDs 1 and 2 carry
\* the same zone name, as LocationIDs 56 and 57 ("Corona") do in the file.
ZoneLabel(id) == IF id <= 2 THEN "Corona" ELSE "Z" \o ToString(id)
ZonesUpTo(n) == [id \in 1..n |-> [Zone |-> ZoneLabel(id), Borough |-> "Queens"]]
LookupTables == {ZonesUpTo(n) : n \in {0, NumZones - 1}}

RECURSIVE SumOver(_, _)
SumOver(f, S) ==
    IF S = {} THEN 0
    ELSE LET k == CHOOSE k \in S : TRUE IN f[k] + SumOver(f, S \ {k})

RECURSIVE SortAsc(_)
SortAsc(S) ==
    IF S = {} THEN <<>>
    ELSE LET m == CHOOSE m \in S : \A o \in S : m <= o IN <<m>> \o SortAsc(S \ {m})

\* The rows of a table: the records with at least one row.
Rows(t) == {k \in DOMAIN t : t[k] > 0}

\* load_data lines 78-80: the view taxi_trips.
taxi_trips_pickup_only(t) ==
    [k \in {k \in Rows(t) : k.tpep_pickup_datetime # NULL} |-> t[k]]

taxi_trips(t) ==
    [k \in {k \in Rows(t) : /\ k.tpep_pickup_datetime # NULL
                            /\ k.tpep_dropoff_datetime # NULL} |-> t[k]]

\* EXTRACT('hour' FROM ts) and DATE_TRUNC('day', ts)
ExtractHour(ts) == ts % 24
DateTruncDay(ts) == (ts \div 24) * 24

\* AVG(passenger_count): the mean of the non-NULL values as the exact
\* fraction <<sum, count>>, NULL when there is none.
Avg(view, S) ==
    LET nonNull == {k \in S : k.passenger_count # NULL}
        total == [k \in nonNull |-> k.passenger_count * view[k]]
    IN IF nonNull = {} THEN <<NULL>>
       ELSE <<SumOver(total, nonNull), SumOver(view, nonNull)>>

\* compute_hourly_circadian: GROUP BY pickup hour ORDER BY pickup hour.
compute_hourly_circadian(view) ==
    LET hourOf(k) == ExtractHour(k.tpep_pickup_datetime)
        keys == SortAsc({hourOf(k) : k \in DOMAIN view})
        group(h) == {k \in DOMAIN view : hourOf(k) = h}
    IN [i \in 1..Len(keys) |->
          [pickup_hour |-> keys[i],
           trips |-> SumOver(view, group(keys[i])),
           avg_passenger_count |-> Avg(view, group(keys[i]))]]

\* compute_monthly_trend: GROUP BY service day ORDER BY service day.
compute_monthly_trend(view) ==
    LET dayOf(k) == DateTruncDay(k.tpep_pickup_datetime)
        keys == SortAsc({dayOf(k) : k \in DOMAIN view})
        group(d) == {k \in DOMAIN view : dayOf(k) = d}
    IN [i \in 1..Len(keys) |->
          [service_day |-> keys[i], trips |-> SumOver(view, group(keys[i]))]]

\* WHERE zone_rank <= 8
RankLimit == 8

\* WHERE hour >= 20 OR hour <= 4
InNightWindowFrom19(h) == h >= 19 \/ h <= 4

InNightWindow(h) == h >= 20 \/ h <= 4

\* LEFT JOIN taxi_zones AS z ON trips.DOLocationID = z.LocationID: z.Zone of
\* the matching row, SQL NULL (the empty string) when no row matches.
JoinedZone(z, id) == IF id \in DOMAIN z THEN z[id].Zone ELSE ""

Coalesce(a, b) == IF a # "" THEN a ELSE b

\* COALESCE(z.Zone, CONCAT('Zone ', CAST(trips.DOLocationID AS VARCHAR)))
ZoneNamePlaceholderOnly(z, id) == "Zone " \o ToString(id)

ZoneName(z, id) == Coalesce(JoinedZone(z, id), "Zone " \o ToString(id))

\* The grouped rows of the CTE `ranked` before the window function:
\* GROUP BY 1, 2 with the row count over the night-window rows of the join.
NightGroups(view, z) ==
    LET hourOf(k) == ExtractHour(k.tpep_pickup_datetime)
        nightRows == {k \in DOMAIN view : InNightWindow(hourOf(k))}
        keys == {<<hourOf(k), ZoneName(z, k.DOLocationID)>> : k \in nightRows}
        group(key) == {k \in nightRows : /\ hourOf(k) = key[1]
                                         /\ ZoneName(z, k.DOLocationID) = key[2]}
    IN {[pickup_hour |-> key[1], zone_name |-> key[2],
         trips |-> SumOver(view, group(key))] : key \in keys}

\* ORDER BY count DESC: the rows that may come first.
FewestFirst(part) == {g \in part : \A o \in part : o.trips >= g.trips}

MostFirst(part) == {g \in part : \A o \in part : o.trips <= g.trips}

(***************************************************************************)
(* ROW_NUMBER() OVER (PARTITION BY hour ORDER BY count DESC) followed      *)
(* by WHERE zone_rank <= n, for one partition: the sets of rows that can   *)
(* get the ranks 1..n.  Rows with equal counts are peers of the ORDER BY,  *)
(* and ROW_NUMBER numbers peers in an order the engine is free to choose:  *)
(* every choice is an outcome.                                             *)
(***************************************************************************)
RECURSIVE RankedRows(_, _)
RankedRows(part, n) ==
    IF n = 0 \/ part = {} THEN {{}}
    ELSE UNION {{{g} \cup rest : rest \in RankedRows(part \ {g}, n - 1)} :
                    g \in MostFirst(part)}

\* The rows of `ranked` with zone_rank <= RankLimit, over all partitions.
RECURSIVE KeptRows(_, _)
KeptRows(groups, hours) ==
    IF hours = {} THEN {{}}
    ELSE LET h == CHOOSE h \in hours : TRUE
             part == {g \in groups : g.pickup_hour = h}
         IN {a \cup b : a \in RankedRows(part, RankLimit),
                        b \in KeptRows(groups, hours \ {h})}

\* ORDER BY pickup_hour, trips DESC: a before-or-peer b.
NotAfter(a, b) ==
    \/ a.pickup_hour < b.pickup_hour
    \/ a.pickup_hour = b.pickup_hour /\ a.trips >= b.trips

\* The orders the final ORDER BY may return: peers come in any order.
RECURSIVE OrderBy(_)
OrderBy(rows) ==
    IF rows = {} THEN {<<>>}
    ELSE UNION {{<<r>> \o s : s \in OrderBy(rows \ {r})} :
                    r \in {r \in rows : \A o \in rows : NotAfter(r, o)}}

\* compute_night_destinations: the set of tables the query may return.
compute_night_destinations(view, z) ==
    LET groups == NightGroups(view, z)
    IN UNION {OrderBy(kept) :
                kept \in KeptRows(groups, {g.pickup_hour : g \in groups})}

\* DataFrame.sort_values(["pickup_hour", "trips"], ascending=[True, False]):
\* a stable sort, by insertion.
RECURSIVE InsertSorted(_, _)
InsertSorted(s, r) ==
    IF s = <<>> THEN <<r>>
    ELSE IF NotAfter(s[Len(s)], r) THEN Append(s, r)
    ELSE Append(InsertSorted(SubSeq(s, 1, Len(s) - 1), r), s[Len(s)])

RECURSIVE SortValues(_)
SortValues(df) ==
    IF df = <<>> THEN <<>>
    ELSE InsertSorted(SortValues(SubSeq(df, 1, Len(df) - 1)), df[Len(df)])

\* DataFrame.empty
EmptyNever(df) == FALSE

Empty(df) == Len(df) = 0

SubplotTitles ==
    <<"Circadian Ridership (Hourly Pickups)", "Daily Trip Totals",
      "Nighttime Drop-off Hot Spots">>

NoDataText == "No nighttime trip data available."

\* build_dashboard: the traces, annotations and title of the figure.
build_dashboard(h, m, n, ms) ==
    LET scatter == [type |-> "scatter", row |-> 1, col |-> 1,
                    x |-> [i \in 1..Len(h) |-> h[i].pickup_hour],
                    y |-> [i \in 1..Len(h) |-> h[i].trips],
                    customdata |-> [i \in 1..Len(h) |-> h[i].avg_passenger_count]]
        bar == [type |-> "bar", row |-> 2, col |-> 1,
                x |-> [i \in 1..Len(m) |-> m[i].service_day],
                y |-> [i \in 1..Len(m) |-> m[i].trips]]
        night_sorted == SortValues(n)
        heatmap == [type |-> "heatmap", row |-> 2, col |-> 2,
                    x |-> [i \in 1..Len(n) |-> night_sorted[i].pickup_hour],
                    y |-> [i \in 1..Len(n) |-> night_sorted[i].zone_name],
                    z |-> [i \in 1..Len(n) |-> night_sorted[i].trips]]
    IN [traces |-> IF ~Empty(n) THEN <<scatter, bar, heatmap>> ELSE <<scatter, bar>>,
        annotations |-> IF ~Empty(n) THEN SubplotTitles
                        ELSE Append(SubplotTitles, NoDataText),
        title |-> <<"NYC Yellow Taxi Ridership Patterns", ms>>]

QInit ==
    /\ pc = "idle"
    /\ run = 0
    /\ argMonths = <<>>
    /\ months = DEFAULT_MONTHS
    /\ outPath = DEFAULT_OUTPUT
    /\ idx = 1
    /\ local_paths = <<>>
    /\ cacheDir = TRUE
    /\ cache = [p \in Paths |-> "complete"]
    /\ output = "absent"
    /\ error = "none"
    /\ printed = FALSE
    /\ io = {}
    /\ fetchLog = <<>>
    /\ written = {}
    /\ queriesOk = {}
    /\ queryRead = {}
    /\ torn = {}
    /\ cutShort = {}
    /\ startCache = cache
    /\ startDir = cacheDir
    /\ startOutput = output
    /\ trips \in TripTables
    /\ zones \in LookupTables
    /\ qpc = "hourly"
    /\ again = FALSE
    /\ hourly = <<>>
    /\ monthly = <<>>
    /\ night = <<>>
    /\ figure = <<>>

\* main() line 306
RunHourly ==
    /\ qpc = "hourly"
    /\ hourly' = compute_hourly_circadian(taxi_trips(trips))
    /\ qpc' = "monthly"
    /\ UNCHANGED <<trips, zones, again, monthly, night, figure>>

\* main() line 307
RunMonthly ==
    /\ qpc = "monthly"
    /\ monthly' = compute_monthly_trend(taxi_trips(trips))
    /\ qpc' = "night"
    /\ UNCHANGED <<trips, zones, again, hourly, night, figure>>

\* main() line 308
RunNight ==
    /\ qpc = "night"
    /\ night' \in compute_night_destinations(taxi_trips(trips), zones)
    /\ qpc' = "build"
    /\ UNCHANGED <<trips, zones, again, hourly, monthly, figure>>

\* main() line 310
BuildDashboard ==
    /\ qpc = "build"
    /\ figure' = build_dashboard(hourly, monthly, night, months)
    /\ qpc' = "done"
    /\ UNCHANGED <<trips, zones, again, hourly, monthly, night>>

\* The pipeline is started again over the same cached files.  The tables of
\* the run before stay in hourly, monthly and night until the new run's
\* queries replace them; the new process has no figure yet.
RunAgain ==
    /\ qpc = "done"
    /\ again' = TRUE
    /\ qpc' = "hourly"
    /\ figure' = <<>>
    /\ UNCHANGED <<trips, zones, hourly, monthly, night>>

QNext ==
    \/ RunHourly /\ UNCHANGED pvars
    \/ RunMonthly /\ UNCHANGED pvars
    \/ RunNight /\ UNCHANGED pvars
    \/ BuildDashboard /\ UNCHANGED pvars
    \/ RunAgain /\ UNCHANGED pvars

QuerySpec == QInit /\ [][QNext]_vars

(***************************************************************************)
(* Properties of the queries (checked under QuerySpec).  The expected      *)
(* values are computed from the trip table directly, record by record.     *)
(***************************************************************************)
\* The positions right after each query: its table is the one just computed,
\* in the first run and in every later one.
HourlyDone == qpc = "monthly"
MonthlyDone == qpc = "night"
NightDone == qpc = "build"

\* The records with both timestamps, and the number of rows of a set of records.
ValidRecords ==
    {k \in TripKinds : /\ trips[k] > 0
                       /\ k.tpep_pickup_datetime # NULL
                       /\ k.tpep_dropoff_datetime # NULL}
NumRows(S) == SumOver(trips, S)

HourOfDay(k) == k.tpep_pickup_datetime % 24
DayStart(k) == k.tpep_pickup_datetime - HourOfDay(k)

NightHours == {20, 21, 22, 23, 0, 1, 2, 3, 4}
NightRecords == {k \in ValidRecords : HourOfDay(k) \in NightHours}

ExpectedZoneName(id) ==
    IF id \in DOMAIN zones THEN zones[id].Zone ELSE "Zone " \o ToString(id)

ZonesAt(h) ==
    {ExpectedZoneName(k.DOLocationID) : k \in {k \in NightRecords : HourOfDay(k) = h}}
TripsAt(h, name) ==
    NumRows({k \in NightRecords : /\ HourOfDay(k) = h
                                  /\ ExpectedZoneName(k.DOLocationID) = name})
RowsAt(h) == {i \in 1..Len(night) : night[i].pickup_hour = h}

TotalTrips(table) == SumOver([i \in 1..Len(table) |-> table[i].trips], 1..Len(table))

\* C6: the hotspot table has at most 8 rows for any hour, and every hour in
\* it is one of 20, 21, 22, 23, 0, 1, 2, 3, 4.
C6_AtMostEightPerNightHour ==
    NightDone =>
        /\ \A h \in 0..23 : Cardinality(RowsAt(h)) <= 8
        /\ \A i \in 1..Len(night) : night[i].pickup_hour \in NightHours

\* More than 8 zones have trips at 22:00 and 8 of them are kept, next to
\* rows of the hours 4 and 20 and trips at the hours 5 and 19.
C6_Witness ==
    /\ qpc = "build"
    /\ Cardinality(ZonesAt(22)) > 8
    /\ Cardinality(RowsAt(22)) = 8
    /\ RowsAt(4) # {}
    /\ RowsAt(20) # {}
    /\ \E k \in ValidRecords : HourOfDay(k) = 5
    /\ \E k \in ValidRecords : HourOfDay(k) = 19

\* C7: the hourly and the daily table each have one row per key with a
\* valid record, in strictly ascending key order, each row counting the
\* valid records of its key, so that the counts add up to the number of
\* valid records; hours are in 0..23; records with a NULL timestamp are in
\* no row.
C7_AggregatesPartitionValidRecords ==
    /\ HourlyDone =>
          /\ {hourly[i].pickup_hour : i \in 1..Len(hourly)} = {HourOfDay(k) : k \in ValidRecords}
          /\ \A i \in 1..Len(hourly) :
                /\ hourly[i].pickup_hour \in 0..23
                /\ hourly[i].trips =
                       NumRows({k \in ValidRecords : HourOfDay(k) = hourly[i].pickup_hour})
                /\ i > 1 => hourly[i - 1].pickup_hour < hourly[i].pickup_hour
          /\ TotalTrips(hourly) = NumRows(ValidRecords)
    /\ MonthlyDone =>
          /\ {monthly[i].service_day : i \in 1..Len(monthly)} = {DayStart(k) : k \in ValidRecords}
          /\ \A i \in 1..Len(monthly) :
                /\ monthly[i].trips =
                       NumRows({k \in ValidRecords : DayStart(k) = monthly[i].service_day})
                /\ i > 1 => monthly[i - 1].service_day < monthly[i].service_day
          /\ TotalTrips(monthly) = NumRows(ValidRecords)

\* Both tables are computed over a table that holds a record without pickup
\* time, a record without drop-off time, two days and several hours.
C7_Witness ==
    /\ qpc = "night"
    /\ \E k \in Rows(trips) : k.tpep_pickup_datetime = NULL
    /\ \E k \in Rows(trips) : k.tpep_dropoff_datetime = NULL
    /\ Len(monthly) = 2
    /\ Len(hourly) >= 4
    /\ TotalTrips(hourly) > Len(hourly)

HasHeatmap == \E i \in 1..Len(figure.traces) : figure.traces[i].type = "heatmap"
HasPlaceholder == \E i \in 1..Len(figure.annotations) : figure.annotations[i] = NoDataText

\* C8: over a table without valid night-window records the hotspot query
\* returns (it has an outcome) and returns the empty table; the figure has
\* the placeholder annotation and no heat-map when the hotspot table is
\* empty, and a heat-map exactly when it is not.
C8_EmptyNightTableGetsPlaceholder ==
    /\ (qpc = "night" /\ NightRecords = {}) =>
          compute_night_destinations(taxi_trips(trips), zones) = {<<>>}
    /\ (NightDone /\ NightRecords = {}) => night = <<>>
    /\ qpc = "done" =>
          /\ night = <<>> => (HasPlaceholder /\ ~HasHeatmap)
          /\ HasHeatmap <=> night # <<>>
          /\ HasPlaceholder <=> night = <<>>

\* A figure built over trips that are all outside the night window.
C8_Witness ==
    /\ qpc = "done"
    /\ ValidRecords # {}
    /\ NightRecords = {}
    /\ night = <<>>
    /\ HasPlaceholder

\* C9: every hotspot row carries the zone name of the records it counts:
\* the lookup table's name for a drop-off identifier the table has, the
\* placeholder "Zone <id>" otherwise; when no record's identifier is in the
\* lookup table every row's name is a placeholder.
C9_ZoneNameOrPlaceholder ==
    NightDone =>
        LET nr == NightRecords
            inLookup == {k \in nr : k.DOLocationID \in DOMAIN zones}
            nameOf == [k \in nr |->
                          IF k \in inLookup THEN zones[k.DOLocationID].Zone
                          ELSE "Zone " \o ToString(k.DOLocationID)]
        IN /\ \A i \in 1..Len(night) :
                 LET counted == {k \in nr : /\ HourOfDay(k) = night[i].pickup_hour
                                            /\ nameOf[k] = night[i].zone_name}
                 IN /\ counted # {}
                    /\ night[i].trips = NumRows(counted)
           /\ inLookup = {} =>
                 \A i \in 1..Len(night) :
                     \E k \in nr : night[i].zone_name = "Zone " \o ToString(k.DOLocationID)
           /\ \A k \in nr :
                 Cardinality({nameOf[o] : o \in {o \in nr : HourOfDay(o) = HourOfDay(k)}})
                         <= RankLimit =>
                     \E i \in RowsAt(HourOfDay(k)) : night[i].zone_name = nameOf[k]

\* A hotspot table with a row named by the lookup table, shared by two
\* identifiers, and a row named by the placeholder.
C9_Witness ==
    /\ qpc = "build"
    /\ zones # <<>>
    /\ \E i \in 1..Len(night) : night[i].zone_name = "Corona" /\ night[i].trips = 2
    /\ \E i \in 1..Len(night) : night[i].zone_name = "Zone " \o ToString(NumZones)

Min(a, b) == IF a <= b THEN a ELSE b

\* C10: for every night hour the table keeps min(8, zones with trips) rows
\* of different zones, each with the exact number of valid records of its
\* hour and zone name; no zone left out has more trips than a zone kept;
\* rows come by hour ascending and by count descending within an hour.
C10_TopZonesPerHour ==
    NightDone =>
        LET nr == NightRecords
            hrs == {HourOfDay(k) : k \in nr}
            nameOf == [k \in nr |-> ExpectedZoneName(k.DOLocationID)]
        IN /\ \A i \in 1..Len(night) : night[i].pickup_hour \in hrs
           /\ \A h \in hrs :
                 LET at == {k \in nr : HourOfDay(k) = h}
                     names == {nameOf[k] : k \in at}
                     count == [n \in names |-> NumRows({k \in at : nameOf[k] = n})]
                     rows == RowsAt(h)
                     kept == {night[i].zone_name : i \in rows}
                 IN /\ Cardinality(rows) = Min(8, Cardinality(names))
                    /\ Cardinality(kept) = Cardinality(rows)
                    /\ kept \subseteq names
                    /\ \A i \in rows : night[i].trips = count[night[i].zone_name]
                    /\ \A n \in names \ kept : \A i \in rows : count[n] <= night[i].trips
           /\ \A i \in 2..Len(night) :
                 \/ night[i - 1].pickup_hour < night[i].pickup_hour
                 \/ /\ night[i - 1].pickup_hour = night[i].pickup_hour
                    /\ night[i - 1].trips >= night[i].trips

\* Ten zones at 22:00: eight kept, the last kept zone and a zone left out
\* both with one trip, and rows of another hour before them.
C10_Witness ==
    /\ qpc = "build"
    /\ Cardinality(ZonesAt(22)) = 10
    /\ Cardinality(RowsAt(22)) = 8
    /\ \E i \in RowsAt(22), name \in ZonesAt(22) :
          /\ night[i].trips = 1
          /\ TripsAt(22, name) = 1
          /\ name \notin {night[j].zone_name : j \in RowsAt(22)}
    /\ night[1].pickup_hour = 4
    /\ night[Len(night)].pickup_hour = 22

\* C5: a second run over the unchanged cache replaces no table by a
\* different one: the hourly, daily and hotspot tables of the second run
\* equal those of the first.
C5_SecondRunSameTables ==
    [][again => (hourly' = hourly /\ monthly' = monthly /\ night' = night)]_vars

====
